---- MODULE Spec2Model ----
(***************************************************************************)
(* A model of rnmat: the rational number type RNum (src/src/rnum.rs), its  *)
(* gcd helper (src/src/utils.rs) and the matrix container RNMat            *)
(* (src/src/mat.rs).                                                       *)
(*                                                                         *)
(* RNum keeps its magnitudes in u32 fields.  A u32 is modelled by its two  *)
(* 16-bit halves <<hi, lo>> (value hi * 2^16 + lo) so that the full 32-bit *)
(* range, and with it arithmetic overflow, is part of the model.  What an  *)
(* overflowing +, - or * does depends on how the crate is built: with      *)
(* overflow checks (the debug and test profiles) it panics, without them   *)
(* (the release profile) it wraps modulo 2^32.  The variable               *)
(* overflow_checks is that build setting.                                  *)
(***************************************************************************)
EXTENDS Integers, Sequences, FiniteSets

\* -------------------------------------------------------------------------
\* Bounds of the model.

\* Numerators and denominators handed to RNum::new range over
\* -MaxIn..MaxIn (and two boundary values, see InVals).
MaxIn == 2
\* An arithmetic result is fed back as an operand only when its numerator and
\* denominator are at most MaxMag.
MaxMag == 4
\* A matrix has at most MaxDim rows and at most MaxDim columns.
MaxDim == 2

\* -------------------------------------------------------------------------
\* u32 arithmetic.

\* Half of the u32 width: 2^16.
HalfWord == 65536

\* i32::MIN.
I32Min == (-2147483647) - 1

\* The u32 with value n, for 0 <= n < 2^31.
U32(n) == <<n \div HalfWord, n % HalfWord>>

U32Zero == <<0, 0>>
U32One == <<0, 1>>

\* a < b on u32.
U32Lt(a, b) == a[1] < b[1] \/ (a[1] = b[1] /\ a[2] < b[2])

\* a + b on u32: the sum modulo 2^32, and whether it overflowed.
U32Add(a, b) ==
  LET lo == a[2] + b[2]
      hi == a[1] + b[1] + (lo \div HalfWord)
  IN [ovf |-> hi >= HalfWord, v |-> <<hi % HalfWord, lo % HalfWord>>]

\* a - b on u32: the difference modulo 2^32, and whether it underflowed.
U32Sub(a, b) ==
  LET borrow == IF a[2] < b[2] THEN 1 ELSE 0
      lo == a[2] - b[2] + borrow * HalfWord
      hi == a[1] - b[1] - borrow
  IN [ovf |-> hi < 0, v |-> <<IF hi < 0 THEN hi + HalfWord ELSE hi, lo>>]

\* The full product of two 16-bit halves x * y, as <<hi, lo>>.
Mul16(x, y) ==
  LET p1 == x * (y \div 256)
      p0 == x * (y % 256)
      lo == (p1 % 256) * 256 + (p0 % HalfWord)
  IN <<(p1 \div 256) + (p0 \div HalfWord) + (lo \div HalfWord), lo % HalfWord>>

\* a * b on u32: the product modulo 2^32, and whether it overflowed.
U32Mul(a, b) ==
  LET ll == Mul16(a[2], b[2])
      hl == Mul16(a[1], b[2])
      lh == Mul16(a[2], b[1])
      mid == ll[1] + hl[2] + lh[2]
  IN [ovf |-> (a[1] # 0 /\ b[1] # 0) \/ hl[1] # 0 \/ lh[1] # 0 \/ mid >= HalfWord,
      v |-> <<mid % HalfWord, ll[2]>>]

\* 2 * q + bit on u32, for q < 2^31.
U32Shl1(q, bit) ==
  LET lo == 2 * q[2] + bit
  IN <<2 * q[1] + (lo \div HalfWord), lo % HalfWord>>

\* a / b and a % b on u32, b # 0.  For b < 2^31 the division is done on
\* h = a / 2, which is below 2^31: with h = qh * b + rh and l the lowest bit
\* of a, a = 2 * qh * b + (2 * rh + l) and 2 * rh + l < 2 * b.
U32DivMod(a, b) ==
  IF b[1] >= HalfWord \div 2
  THEN IF U32Lt(a, b) THEN [q |-> U32Zero, r |-> a]
                      ELSE [q |-> U32One, r |-> U32Sub(a, b).v]
  ELSE
    LET y == b[1] * HalfWord + b[2]
        h == a[1] * (HalfWord \div 2) + (a[2] \div 2)
        l == a[2] % 2
        qh == h \div y
        rh == h % y
    IN IF rh >= y - rh - l
       THEN [q |-> U32Shl1(U32(qh), 1), r |-> U32(rh - (y - rh - l))]
       ELSE [q |-> U32Shl1(U32(qh), 0), r |-> U32(2 * rh + l)]

U32Div(a, b) == U32DivMod(a, b).q
U32Mod(a, b) == U32DivMod(a, b).r

\* -------------------------------------------------------------------------
\* utils.rs

\* The loop of gcd: r is a % b.
RECURSIVE GcdLoop(_, _, _)
GcdLoop(a, b, r) == IF r # U32Zero THEN GcdLoop(b, r, U32Mod(b, r)) ELSE b

\* gcd(a, b), after the swap that makes a >= b.
GcdOrdered(a, b) ==
  IF b = U32One THEN U32One
  ELSE IF a = b \/ b = U32Zero THEN a
  ELSE GcdLoop(a, b, U32Mod(a, b))

gcd(a, b) == IF U32Lt(a, b) THEN GcdOrdered(b, a) ELSE GcdOrdered(a, b)

get_reduced_pair(a, b) ==
  LET gcd_num == gcd(a, b)
  IN <<U32Div(a, gcd_num), U32Div(b, gcd_num)>>

\* -------------------------------------------------------------------------
\* rnum.rs

\* The value RNum { neg_flag, nume, deno }.
RNum(f, n, d) == [neg_flag |-> f, nume |-> n, deno |-> d]

\* What a call yields: a value (kind "ok"), or a panic and no value:
\* "panic_zero_deno" is the failed assertion "Error, denominator is zero.",
\* "panic_overflow" an arithmetic overflow caught by the overflow checks.
Ok(v) == [kind |-> "ok", val |-> v]
Panic(k) == [kind |-> k, val |-> RNum(FALSE, U32Zero, U32One)]

\* n.abs() as u32 without overflow checks: i32::MIN.abs() wraps to i32::MIN.
AbsU32(n) ==
  IF n = I32Min THEN <<HalfWord \div 2, 0>>
  ELSE IF n < 0 THEN U32(-n) ELSE U32(n)

\* RNum::new(n, d) in a build with (oc) or without overflow checks.
RNumNew(oc, n, d) ==
  IF d = 0 THEN Panic("panic_zero_deno")
  ELSE IF n = 0 THEN Ok(RNum(FALSE, U32Zero, U32One))
  ELSE IF oc /\ (n = I32Min \/ d = I32Min) THEN Panic("panic_overflow")
  ELSE
    LET flag == (n < 0 /\ d > 0) \/ (n > 0 /\ d < 0)
        un == AbsU32(n)
        ud == AbsU32(d)
        gcd_num == gcd(ud, un)
    IN Ok(RNum(flag, U32Div(un, gcd_num), U32Div(ud, gcd_num)))

\* RNum::zero()
zero == RNumNew(TRUE, 0, 1).val

is_negative(v) == v.neg_flag /\ v.nume # U32Zero
is_positive(v) == ~v.neg_flag /\ v.nume # U32Zero
is_zero(v) == v.nume = U32Zero

\* reduce without the division by the gcd.
reduce_no_division(v) ==
  IF v.deno = U32Zero THEN Panic("panic_zero_deno")
  ELSE IF v.nume = U32Zero THEN Ok(RNum(FALSE, v.nume, U32One))
  ELSE Ok(v)

\* RNum::reduce on the value v, which the operators then return.
reduce(v) ==
  IF v.deno = U32Zero THEN Panic("panic_zero_deno")
  ELSE IF v.nume = U32Zero THEN Ok(RNum(FALSE, v.nume, U32One))
  ELSE
    LET gcd_num == gcd(v.deno, v.nume)
    IN IF U32Lt(U32One, gcd_num)
       THEN Ok(RNum(v.neg_flag, U32Div(v.nume, gcd_num), U32Div(v.deno, gcd_num)))
       ELSE Ok(v)

\* PartialEq for RNum
RNumEq(s, o) ==
  get_reduced_pair(s.nume, s.deno) = get_reduced_pair(o.nume, o.deno)
    /\ s.neg_flag = o.neg_flag

\* self + rhs
Add(oc, s, r) ==
  LET deno == U32Mul(s.deno, r.deno)
      n1 == U32Mul(s.nume, r.deno)
      t == U32Mul(s.deno, r.nume)
      nume == IF r.neg_flag THEN U32Sub(n1.v, t.v) ELSE U32Add(n1.v, t.v)
      flag == s.neg_flag # r.neg_flag
  IN IF oc /\ (deno.ovf \/ n1.ovf \/ t.ovf \/ nume.ovf)
     THEN Panic("panic_overflow")
     ELSE reduce(RNum(flag, nume.v, deno.v))

\* self - rhs
Sub(oc, s, r) ==
  LET deno == U32Mul(s.deno, r.deno)
      n1 == U32Mul(s.nume, r.deno)
      t == U32Mul(s.deno, r.nume)
      nume == IF r.neg_flag THEN U32Add(n1.v, t.v) ELSE U32Sub(n1.v, t.v)
      flag == ~(s.neg_flag # r.neg_flag)
  IN IF oc /\ (deno.ovf \/ n1.ovf \/ t.ovf \/ nume.ovf)
     THEN Panic("panic_overflow")
     ELSE reduce(RNum(flag, nume.v, deno.v))

\* self * rhs
Mul(oc, s, r) ==
  LET deno == U32Mul(s.deno, r.deno)
      nume == U32Mul(s.nume, r.nume)
      flag == s.neg_flag # r.neg_flag
  IN IF oc /\ (deno.ovf \/ nume.ovf)
     THEN Panic("panic_overflow")
     ELSE reduce(RNum(flag, nume.v, deno.v))

\* self / rhs
Div(oc, s, r) ==
  LET deno == U32Mul(s.deno, r.nume)
      nume == U32Mul(s.nume, r.deno)
      flag == s.neg_flag # r.neg_flag
  IN IF oc /\ (deno.ovf \/ nume.ovf)
     THEN Panic("panic_overflow")
     ELSE reduce(RNum(flag, nume.v, deno.v))

\* -self
Neg(s) ==
  LET flag == IF s.nume = U32Zero THEN FALSE ELSE ~s.neg_flag
  IN Ok(RNum(flag, s.nume, s.deno))

\* -------------------------------------------------------------------------
\* State.

VARIABLES
  overflow_checks, \* whether the build checks arithmetic overflow
  lhs, rhs,        \* two RNum values the caller holds
  res,             \* what the last RNum call yielded
  op,              \* the last RNum call
  mat,             \* RNMat.mat of the matrix the caller holds
  call,            \* the last RNMat call
  arg,             \* its argument(s)
  ret              \* what it returned

vars == <<overflow_checks, lhs, rhs, res, op, mat, call, arg, ret>>
rnumVars == <<lhs, rhs, res, op>>
matVars == <<mat, call, arg, ret>>

\* -------------------------------------------------------------------------
\* The RNum operations.

\* The integers handed to RNum::new: a small range, 2^16 (whose square is the
\* first product a u32 cannot hold) and i32::MIN (whose abs() overflows).
InVals == (-MaxIn .. MaxIn) \cup {HalfWord, I32Min}

\* Results small enough to be used as operands again.
Small(v) ==
  /\ v.nume[1] = 0 /\ v.nume[2] <= MaxMag
  /\ v.deno[1] = 0 /\ v.deno[2] <= MaxMag

Arith == {"add", "sub", "mul", "div", "neg"}

\* RNum::new on every input of the model.
NewTable == [oc \in BOOLEAN, n \in InVals, d \in InVals |-> RNumNew(oc, n, d)]

InitRNum ==
  /\ overflow_checks \in BOOLEAN
  /\ lhs = zero
  /\ rhs = zero
  /\ res = Ok(zero)
  /\ op = "zero"
  /\ mat = <<>>
  /\ call = "new"
  /\ arg = <<>>
  /\ ret = "Ok"

\* lhs = RNum::new(n, d)
NewA(n, d) ==
  /\ res' = NewTable[overflow_checks, n, d]
  /\ op' = "new"
  /\ lhs' = IF res'.kind = "ok" THEN res'.val ELSE lhs
  /\ UNCHANGED <<overflow_checks, rhs, matVars>>

\* rhs = RNum::new(n, d)
NewB(n, d) ==
  /\ res' = NewTable[overflow_checks, n, d]
  /\ op' = "new"
  /\ rhs' = IF res'.kind = "ok" THEN res'.val ELSE rhs
  /\ UNCHANGED <<overflow_checks, lhs, matVars>>

DoAdd ==
  /\ res' = Add(overflow_checks, lhs, rhs)
  /\ op' = "add"
  /\ UNCHANGED <<overflow_checks, lhs, rhs, matVars>>

DoSub ==
  /\ res' = Sub(overflow_checks, lhs, rhs)
  /\ op' = "sub"
  /\ UNCHANGED <<overflow_checks, lhs, rhs, matVars>>

DoMul ==
  /\ res' = Mul(overflow_checks, lhs, rhs)
  /\ op' = "mul"
  /\ UNCHANGED <<overflow_checks, lhs, rhs, matVars>>

DoDiv ==
  /\ res' = Div(overflow_checks, lhs, rhs)
  /\ op' = "div"
  /\ UNCHANGED <<overflow_checks, lhs, rhs, matVars>>

DoNeg ==
  /\ res' = Neg(lhs)
  /\ op' = "neg"
  /\ UNCHANGED <<overflow_checks, lhs, rhs, matVars>>

\* The caller goes on with the result as its lhs.
FeedA ==
  /\ op \in Arith
  /\ res.kind = "ok"
  /\ Small(res.val)
  /\ lhs' = res.val
  /\ op' = "feed"
  /\ UNCHANGED <<overflow_checks, rhs, res, matVars>>

\* The caller goes on with the result as its rhs.
FeedB ==
  /\ op \in Arith
  /\ res.kind = "ok"
  /\ Small(res.val)
  /\ rhs' = res.val
  /\ op' = "feed"
  /\ UNCHANGED <<overflow_checks, lhs, res, matVars>>

NextRNum ==
  \/ \E n \in InVals, d \in InVals : NewA(n, d)
  \/ \E n \in InVals, d \in InVals : NewB(n, d)
  \/ DoAdd
  \/ DoSub
  \/ DoMul
  \/ DoDiv
  \/ DoNeg
  \/ FeedA
  \/ FeedB

SpecRNum == InitRNum /\ [][NextRNum]_vars

\* -------------------------------------------------------------------------
\* mat.rs

row_num(m) == Len(m)

col_num(m) == IF Len(m) = 0 THEN 0 ELSE Len(m[1])

\* What a call on the matrix m leaves: the matrix and the value returned.
Outcome(m, r) == [mat |-> m, ret |-> r]

\* push_row without the check of the row's length.
push_row_unchecked(m, row) == Outcome(Append(m, row), "Ok")

push_row(m, row) ==
  IF Len(m) > 0 /\ Len(m[1]) # Len(row)
  THEN Outcome(m, "RowDismatch")
  ELSE Outcome(Append(m, row), "Ok")

\* push_col putting the new elements first in their rows.
push_col_front(m, col) ==
  LET row_cnt == Len(m)
  IN IF row_cnt = 0
     THEN Outcome([i \in 1 .. Len(col) |-> <<col[i]>>], "Ok")
     ELSE IF row_cnt # Len(col)
          THEN Outcome(m, "ColDismatch")
          ELSE Outcome([i \in 1 .. row_cnt |-> <<col[i]>> \o m[i]], "Ok")

\* push_col finding the mismatch only when the column or the rows run out.
push_col_eager(m, col) ==
  LET row_cnt == Len(m)
      pushed == [i \in 1 .. row_cnt |->
                   IF i <= Len(col) THEN Append(m[i], col[i]) ELSE m[i]]
  IN IF row_cnt = 0
     THEN Outcome([i \in 1 .. Len(col) |-> <<col[i]>>], "Ok")
     ELSE IF row_cnt # Len(col)
          THEN Outcome(pushed, "ColDismatch")
          ELSE Outcome(pushed, "Ok")

push_col(m, col) ==
  LET row_cnt == Len(m)
  IN IF row_cnt = 0
     THEN Outcome([i \in 1 .. Len(col) |-> <<col[i]>>], "Ok")
     ELSE IF row_cnt # Len(col)
          THEN Outcome(m, "ColDismatch")
          ELSE Outcome([i \in 1 .. row_cnt |-> Append(m[i], col[i])], "Ok")

\* The indices are the code's: 0 is the first row.
swap_row(m, rindex_a, rindex_b) ==
  LET leng == Len(m)
  IN IF leng <= rindex_a \/ leng <= rindex_b
     THEN Outcome(m, "InvalidIndex")
     ELSE Outcome([m EXCEPT ![rindex_a + 1] = m[rindex_b + 1],
                            ![rindex_b + 1] = m[rindex_a + 1]], "Ok")

\* The for_each of row_mul_scalar from element j on: each element is replaced
\* by its product in turn, and a panicking product ends the call there.
RECURSIVE ScaleRow(_, _, _, _)
ScaleRow(oc, row, factor, j) ==
  IF j > Len(row) THEN [row |-> row, ret |-> "Ok"]
  ELSE
    LET p == Mul(oc, row[j], factor)
    IN IF p.kind # "ok" THEN [row |-> row, ret |-> p.kind]
       ELSE ScaleRow(oc, [row EXCEPT ![j] = p.val], factor, j + 1)

row_mul_scalar(oc, m, factor, index) ==
  IF Len(m) <= index
  THEN Outcome(m, "InvalidIndex")
  ELSE
    LET s == ScaleRow(oc, m[index + 1], factor, 1)
    IN Outcome([m EXCEPT ![index + 1] = s.row], s.ret)

\* is_valid_dimension comparing the row counts.
is_valid_dimension_rows(m, other) ==
  (Len(m) + Len(other) = 0) \/ (Len(m) = Len(other))

\* is_valid_dimension with the two matrices in each other's place.
is_valid_dimension_swapped(m, other) ==
  (Len(m) + Len(other) = 0) \/ (col_num(other) = Len(m))

is_valid_dimension(m, other) ==
  (Len(m) + Len(other) = 0) \/ (col_num(m) = Len(other))

\* How the conversion of one row of the grid ends: "ok", the failed
\* assert_eq!(col_len, row.len()), or the panic of the first RNum::new that
\* panics.
FromRow(oc, col_len, row) ==
  IF Len(row) # col_len THEN "panic_assert_eq"
  ELSE
    LET bad == {j \in 1 .. Len(row) : RNumNew(oc, row[j][1], row[j][2]).kind # "ok"}
    IN IF bad = {} THEN "ok"
       ELSE LET j == CHOOSE k \in bad : \A k2 \in bad : k <= k2
            IN RNumNew(oc, row[j][1], row[j][2]).kind

\* RNMat::from(vecs): a panic leaves no matrix.
From(oc, vecs) ==
  IF Len(vecs) = 0 THEN Outcome(<<>>, "Ok")
  ELSE
    LET col_len == Len(vecs[1])
        bad == {i \in 1 .. Len(vecs) : FromRow(oc, col_len, vecs[i]) # "ok"}
    IN IF bad # {}
       THEN Outcome(<<>>, FromRow(oc, col_len,
                            vecs[CHOOSE k \in bad : \A k2 \in bad : k <= k2]))
       ELSE Outcome([i \in 1 .. Len(vecs) |->
                       [j \in 1 .. col_len |->
                          RNumNew(oc, vecs[i][j][1], vecs[i][j][2]).val]], "Ok")

\* -------------------------------------------------------------------------
\* The RNMat operations.

\* The sequences over S of length at most n.
SeqsUpTo(S, n) == UNION {[1 .. k -> S] : k \in 0 .. n}

\* The (numerator, denominator) pairs of the grids: 0/3 and 2/2, which
\* RNum::new reduces to 0/1 and 1/1.
InPairs == {<<0, 3>>, <<2, 2>>}

\* The elements of the rows and columns pushed, and the scaling factors: the
\* values the pairs convert to, which the product keeps to itself.
Elems == {RNumNew(TRUE, p[1], p[2]).val : p \in InPairs}

\* The grids handed to RNMat::from, ragged ones among them.
Grids == SeqsUpTo(SeqsUpTo(InPairs, MaxDim), MaxDim)

\* The rows and columns handed to push_row and push_col.
Lines == SeqsUpTo(Elems, MaxDim)

\* The other matrices handed to is_valid_dimension: one of each shape.
Others ==
  {<<>>} \cup {[i \in 1 .. r |-> [j \in 1 .. c |-> zero]] :
                 r \in 1 .. MaxDim, c \in 0 .. MaxDim}

Panics == {"panic_zero_deno", "panic_overflow", "panic_assert_eq"}

InitRNMat ==
  /\ overflow_checks \in BOOLEAN
  /\ lhs = zero
  /\ rhs = zero
  /\ res = Ok(zero)
  /\ op = "zero"
  /\ \/ /\ mat = <<>>
        /\ call = "new"
        /\ arg = <<>>
        /\ ret = "Ok"
     \/ \E vecs \in Grids :
          /\ mat = From(overflow_checks, vecs).mat
          /\ call = "from"
          /\ arg = vecs
          /\ ret = From(overflow_checks, vecs).ret

\* A panic ended the program: there is no matrix to call anything on.
Alive == ret \notin Panics

PushRow(row) ==
  /\ Alive
  /\ Len(mat) < MaxDim \/ push_row(mat, row).ret # "Ok"
  /\ mat' = push_row(mat, row).mat
  /\ ret' = push_row(mat, row).ret
  /\ call' = "push_row"
  /\ arg' = row
  /\ UNCHANGED <<overflow_checks, rnumVars>>

PushCol(col) ==
  /\ Alive
  /\ col_num(mat) < MaxDim \/ push_col(mat, col).ret # "Ok"
  /\ mat' = push_col(mat, col).mat
  /\ ret' = push_col(mat, col).ret
  /\ call' = "push_col"
  /\ arg' = col
  /\ UNCHANGED <<overflow_checks, rnumVars>>

SwapRow(ia, ib) ==
  /\ Alive
  /\ mat' = swap_row(mat, ia, ib).mat
  /\ ret' = swap_row(mat, ia, ib).ret
  /\ call' = "swap_row"
  /\ arg' = <<ia, ib>>
  /\ UNCHANGED <<overflow_checks, rnumVars>>

RowMulScalar(factor, index) ==
  /\ Alive
  /\ mat' = row_mul_scalar(overflow_checks, mat, factor, index).mat
  /\ ret' = row_mul_scalar(overflow_checks, mat, factor, index).ret
  /\ call' = "row_mul_scalar"
  /\ arg' = <<factor, index>>
  /\ UNCHANGED <<overflow_checks, rnumVars>>

IsValidDimension(other) ==
  /\ Alive
  /\ ret' = IF is_valid_dimension(mat, other) THEN "true" ELSE "false"
  /\ call' = "is_valid_dimension"
  /\ arg' = other
  /\ UNCHANGED <<overflow_checks, mat, rnumVars>>

NextRNMat ==
  \/ \E row \in Lines : PushRow(row)
  \/ \E col \in Lines : PushCol(col)
  \/ \E ia \in 0 .. MaxDim, ib \in 0 .. MaxDim : SwapRow(ia, ib)
  \/ \E factor \in Elems, index \in 0 .. MaxDim : RowMulScalar(factor, index)
  \/ \E other \in Others : IsValidDimension(other)

SpecRNMat == InitRNMat /\ [][NextRNMat]_vars

\* -------------------------------------------------------------------------
\* Properties of RNum, checked under SpecRNum.

\* The greatest common divisor by Euclid's algorithm, as the reference the
\* results are measured against.
RECURSIVE Euclid(_, _)
Euclid(m, n) == IF n = U32Zero THEN m ELSE Euclid(n, U32Mod(m, n))

\* deno != 0, and either nume != 0 in lowest terms or the one zero 0/1.
CanonicalForm(v) ==
  /\ v.deno # U32Zero
  /\ \/ v.nume # U32Zero /\ Euclid(v.nume, v.deno) = U32One
     \/ v.nume = U32Zero /\ v.deno = U32One /\ v.neg_flag = FALSE

\* The values RNum::new builds from the inputs of the model.
BuiltByNew(v) ==
  \E n \in InVals, d \in InVals : NewTable[overflow_checks, n, d] = Ok(v)

\* The values RNum::new builds from numerators and denominators in [-20, 20].
BuiltInRange20 ==
  {RNumNew(TRUE, n, d).val : n \in -20 .. 20, d \in (-20 .. 20) \ {0}}

\* C1: every value RNum::new or an operator returns, and so every value the
\* caller holds, has a nonzero denominator and is either nonzero in lowest
\* terms or the canonical zero (nume = 0, deno = 1, neg_flag = false).
C1_CanonicalForm ==
  /\ CanonicalForm(lhs)
  /\ CanonicalForm(rhs)
  /\ res.kind = "ok" => CanonicalForm(res.val)

\* 1/4 + 1/4, the 1/4 being itself a product, came out as 8/16 reduced to 1/2.
C1_Witness ==
  /\ op = "add"
  /\ lhs = RNum(FALSE, U32(1), U32(4))
  /\ rhs = RNum(FALSE, U32(1), U32(4))
  /\ res = Ok(RNum(FALSE, U32(1), U32(2)))

\* C2: for a and b built by RNum::new from numerators and denominators in
\* [-20, 20], a + b returns a value and it equals b + a under RNum equality.
C2_AddCommutes ==
  (op = "add" /\ lhs \in BuiltInRange20 /\ rhs \in BuiltInRange20) =>
    /\ res.kind = "ok"
    /\ Add(overflow_checks, rhs, lhs).kind = "ok"
    /\ RNumEq(res.val, Add(overflow_checks, rhs, lhs).val)

\* C3: for every a built by RNum::new, a - a equals RNum::zero().  Stated
\* for the a built from numerators and denominators in [-20, 20], where no
\* product comes near the u32 range.
C3_SubSelfIsZero ==
  (op = "sub" /\ lhs \in BuiltInRange20 /\ rhs = lhs) =>
    res.kind = "ok" /\ RNumEq(res.val, zero)

\* C4: a / b panics and returns nothing when b is zero, whatever a is, and
\* does not fail on a zero denominator when b is not zero.
C4_DivFailsOnlyOnZero ==
  op = "div" =>
    /\ is_zero(rhs) => res.kind # "ok"
    /\ ~is_zero(rhs) => res.kind # "panic_zero_deno"

\* C9: for a and b built by RNum::new, a - b equals a + (-b) under RNum
\* equality whenever both return a value.
C9_SubIsAddNeg ==
  (op = "sub" /\ BuiltByNew(lhs) /\ BuiltByNew(rhs)) =>
    LET alt == Add(overflow_checks, lhs, Neg(rhs).val)
    IN (res.kind = "ok" /\ alt.kind = "ok") => RNumEq(res.val, alt.val)

\* -------------------------------------------------------------------------
\* Properties of RNMat, checked under SpecRNMat.

IsShape(m, r, c) == Len(m) = r /\ \A i \in 1 .. Len(m) : Len(m[i]) = c

Errors == {"RowDismatch", "ColDismatch", "InvalidIndex"}

\* C5: all stored rows have the same length, row_num() is the number of
\* stored rows, and col_num() is 0 without rows and the common row length
\* otherwise, after any sequence of calls, successful or failing.
C5_Rectangular ==
  /\ \A i, j \in 1 .. Len(mat) : Len(mat[i]) = Len(mat[j])
  /\ row_num(mat) = Cardinality(DOMAIN mat)
  /\ mat = <<>> => col_num(mat) = 0
  /\ \A i \in 1 .. Len(mat) : col_num(mat) = Len(mat[i])

\* A full matrix has just refused a row of another length.
C5_Witness ==
  /\ call = "push_row"
  /\ ret = "RowDismatch"
  /\ IsShape(mat, MaxDim, MaxDim)

\* C6: is_valid_dimension returns a boolean, and returns true if and only if
\* both matrices have zero rows or self's column count is other's row count.
C6_ValidDimension ==
  call = "is_valid_dimension" =>
    /\ ret \in {"true", "false"}
    /\ ret = "true" <=>
         \/ mat = <<>> /\ arg = <<>>
         \/ /\ mat # <<>>
            /\ \E c \in 0 .. MaxDim : IsShape(mat, Len(mat), c) /\ c = Len(arg)

\* A matrix with rows, and no other rows beside its columns, was compatible.
C6_Witness ==
  /\ call = "is_valid_dimension"
  /\ ret = "true"
  /\ IsShape(mat, 1, 2)
  /\ IsShape(arg, 2, 0)

\* C7 as stated: a 1x2 matrix with a 1x2 matrix gives false, a 2x1 matrix
\* with a 2x2 matrix gives true, an empty matrix with an empty matrix true.
C7_ExamplesAsStated ==
  call = "is_valid_dimension" =>
    /\ (IsShape(mat, 1, 2) /\ IsShape(arg, 1, 2)) => ret = "false"
    /\ (IsShape(mat, 2, 1) /\ IsShape(arg, 2, 2)) => ret = "true"
    /\ (mat = <<>> /\ arg = <<>>) => ret = "true"

\* C7 as amended: a 1x2 matrix with a 1x2 matrix gives false, a 2x1 matrix
\* with a 2x2 matrix gives false, an empty matrix with an empty matrix true.
C7_ExamplesAmended ==
  call = "is_valid_dimension" =>
    /\ (IsShape(mat, 1, 2) /\ IsShape(arg, 1, 2)) => ret = "false"
    /\ (IsShape(mat, 2, 1) /\ IsShape(arg, 2, 2)) => ret = "false"
    /\ (mat = <<>> /\ arg = <<>>) => ret = "true"

\* The 2x1 matrix was checked against a 2x2 matrix.
C7_Witness ==
  /\ call = "is_valid_dimension"
  /\ IsShape(mat, 2, 1)
  /\ IsShape(arg, 2, 2)
  /\ ret = "false"

\* C8 as stated: on a matrix without rows push_col(col) succeeds and leaves
\* Len(col) rows and 1 column, row i being [col[i]]; on a matrix with rows
\* it returns ColDismatch for a column of another length than the row count,
\* and otherwise succeeds, appends col[i] to row i, keeps the row count and
\* raises the column count by 1.
C8_PushColAsStated ==
  [][call' = "push_col" =>
       IF Len(mat) = 0
       THEN /\ ret' = "Ok"
            /\ row_num(mat') = Len(arg')
            /\ col_num(mat') = 1
            /\ \A i \in 1 .. Len(arg') : mat'[i] = <<arg'[i]>>
       ELSE IF Len(arg') # Len(mat)
            THEN ret' = "ColDismatch"
            ELSE /\ ret' = "Ok"
                 /\ row_num(mat') = row_num(mat)
                 /\ col_num(mat') = col_num(mat) + 1
                 /\ \A i \in 1 .. Len(mat) : mat'[i] = Append(mat[i], arg'[i])
    ]_vars

\* C8 as amended: the same, but a column of length 0 pushed onto a matrix
\* without rows leaves the matrix empty, with 0 rows and col_num() = 0.
C8_PushColAmended ==
  [][call' = "push_col" =>
       IF Len(mat) = 0
       THEN /\ ret' = "Ok"
            /\ row_num(mat') = Len(arg')
            /\ col_num(mat') = IF Len(arg') = 0 THEN 0 ELSE 1
            /\ \A i \in 1 .. Len(arg') : mat'[i] = <<arg'[i]>>
       ELSE IF Len(arg') # Len(mat)
            THEN ret' = "ColDismatch"
            ELSE /\ ret' = "Ok"
                 /\ row_num(mat') = row_num(mat)
                 /\ col_num(mat') = col_num(mat) + 1
                 /\ \A i \in 1 .. Len(mat) : mat'[i] = Append(mat[i], arg'[i])
    ]_vars

\* A column of two different elements became the second column.
C8_Witness ==
  /\ call = "push_col"
  /\ ret = "Ok"
  /\ IsShape(mat, 2, 2)
  /\ arg = <<mat[1][2], mat[2][2]>>
  /\ arg[1] # arg[2]
  /\ mat[1][1] # mat[1][2]

\* C10: a call that returns RowDismatch, ColDismatch or InvalidIndex leaves
\* the matrix as it was: the same rows, the same entries, the same order.
C10_FailedCallsKeepMatrix ==
  [][ret' \in Errors => mat' = mat]_vars

\* A swap with an index past the last row was refused on a matrix with two
\* different rows.
C10_Witness ==
  /\ call = "swap_row"
  /\ ret = "InvalidIndex"
  /\ IsShape(mat, 2, 1)
  /\ mat[1] # mat[2]

====
